---- MODULE Spec2Model ----
(***************************************************************************)
(* Model of LRUCache (core/templates/lru.h).                               *)
(*                                                                         *)
(* The cache is a recency list _list of nodes (front = index 1) owned by   *)
(* the list, an index _map from keys to node addresses, and a capacity.    *)
(* A node is a record [id, key, data]; id is the address of the list       *)
(* element, so that an index entry that refers to an erased node, or two   *)
(* entries that refer to the same node, are states the model can express.  *)
(*                                                                         *)
(* Every public method is an operator from a cache record to the sequence  *)
(* of cache states the method goes through, one per executed statement     *)
(* (tagged with the source line), and every action applies one whole       *)
(* method and records that sequence in the history variable trace.         *)
(***************************************************************************)
EXTENDS Integers, Sequences, FiniteSets, TLC

\* ---- bounds of the model -------------------------------------------------
NumKeys == 3
NumVals == 2
MaxCap == 2

Keys == 1..NumKeys
Vals == 1..NumVals
\* the capacities a cache is constructed with (LRUCache(int)) or set to; the
\* capacity 64 of the default constructor LRUCache() lies beyond the bound
Caps == 0..MaxCap
\* the addresses of list elements: one more than the longest list a cache of
\* capacity MaxCap holds, the length insert reaches before it evicts
NodeIds == 1..(MaxCap + 1)

NULL == 0

\* _list, _map, capacity: the members of LRUCache; crashed: the process has
\* trapped; op, ret, trace: the last call, what it returned and the states it
\* went through; uses: the present keys in the order of their last use, kept
\* apart from the list
VARIABLES _list, _map, capacity, crashed, op, ret, trace, uses

vars == <<_list, _map, capacity, crashed, op, ret, trace, uses>>

\* ---- List<Pair> (core/templates/list.h) ----------------------------------
Pair(n, k, v) == [id |-> n, key |-> k, data |-> v]

push_front(l, nd) == <<nd>> \o l

front(l) == IF Len(l) = 0 THEN NULL ELSE l[1].id

back(l) == IF Len(l) = 0 THEN NULL ELSE l[Len(l)].id

pop_back(l) == IF Len(l) = 0 THEN l ELSE SubSeq(l, 1, Len(l) - 1)

erase(l, n) == SelectSeq(l, LAMBDA nd : nd.id # n)

move_to_front(l, n) == SelectSeq(l, LAMBDA nd : nd.id = n) \o SelectSeq(l, LAMBDA nd : nd.id # n)

\* the Pair an Element points to; a record with key NULL when the address is
\* not that of a node of the list
deref(l, n) ==
    IF \E i \in 1..Len(l) : l[i].id = n
    THEN l[CHOOSE i \in 1..Len(l) : l[i].id = n]
    ELSE Pair(NULL, NULL, NULL)

\* ---- HashMap<TKey, Element> (core/templates/hash_map.h) ------------------
map_getptr(m, k) == IF k \in DOMAIN m THEN m[k] ELSE NULL

map_erase(m, k) == [x \in DOMAIN m \ {k} |-> m[x]]

map_set(m, k, n) == [x \in DOMAIN m \cup {k} |-> IF x = k THEN n ELSE m[x]]

map_size(m) == Cardinality(DOMAIN m)

EmptyMap == [x \in {} |-> NULL]

\* ---- CRASH_COND (core/error/error_macros.h) --------------------------------
\* the process traps, and never continues, exactly when the condition holds
CRASH_COND(cond) == cond

\* ---- cache states and statement traces -----------------------------------
Cache(l, m, c) == [list |-> l, map |-> m, capacity |-> c]

\* the cache state after the statement at source line ln
At(ln, c) == [line |-> ln, list |-> c.list, map |-> c.map, capacity |-> c.capacity]

StateOf(t) == Cache(t.list, t.map, t.capacity)

Last(s) == s[Len(s)]

\* the result of a method call: the statement trace (its first element is the
\* state on entry), the returned value, and whether the call trapped
Result(t, r, cr) == [trace |-> t, ret |-> r, crash |-> cr]

Final(res) == StateOf(Last(res.trace))

\* ---- LRUCache ------------------------------------------------------------
RECURSIVE insert_evict(_)
\* lines 78-82: while (_map.size() > capacity) { d = _list.back();
\* _map.erase(d->get().key); _list.pop_back(); }
\* Yields the states after lines 80 and 81 of every iteration; a back() of an
\* empty list is a null Element, whose dereference traps.
insert_evict(c) ==
    IF map_size(c.map) > c.capacity
    THEN LET d == back(c.list)
             s80 == [c EXCEPT !.map = map_erase(c.map, deref(c.list, d).key)]
             s81 == [s80 EXCEPT !.list = pop_back(s80.list)]
         IN IF d = NULL
            THEN [trace |-> <<>>, crash |-> TRUE]
            ELSE LET rest == insert_evict(s81)
                 IN [trace |-> <<At(80, s80), At(81, s81)>> \o rest.trace,
                     crash |-> rest.crash]
    ELSE [trace |-> <<>>, crash |-> FALSE]

\* insert without its eviction loop
insert_no_evict(c, k, v, n) ==
    LET e == map_getptr(c.map, k)
        s70 == [c EXCEPT !.list = push_front(c.list, Pair(n, k, v))]
        s73 == IF e # NULL THEN [s70 EXCEPT !.list = erase(s70.list, e)] ELSE s70
        s74 == IF e # NULL THEN [s73 EXCEPT !.map = map_erase(s73.map, k)] ELSE s73
        s76 == [s74 EXCEPT !.map = map_set(s74.map, k, front(s74.list))]
    IN Result(<<At(68, c), At(70, s70)>>
                \o (IF e # NULL THEN <<At(73, s73), At(74, s74)>> ELSE <<>>)
                \o <<At(76, s76)>>,
              n, FALSE)

\* insert that leaves the old node of a present key in the list
insert_keep_old(c, k, v, n) ==
    LET e == map_getptr(c.map, k)
        s70 == [c EXCEPT !.list = push_front(c.list, Pair(n, k, v))]
        s74 == IF e # NULL THEN [s70 EXCEPT !.map = map_erase(s70.map, k)] ELSE s70
        s76 == [s74 EXCEPT !.map = map_set(s74.map, k, front(s74.list))]
        ev == insert_evict(s76)
    IN Result(<<At(68, c), At(70, s70)>>
                \o (IF e # NULL THEN <<At(74, s74)>> ELSE <<>>)
                \o <<At(76, s76)>> \o ev.trace,
              n, ev.crash)

\* insert that updates a present key's node in place, without moving it
insert_in_place(c, k, v, n) ==
    LET e == map_getptr(c.map, k)
        upd == [c EXCEPT !.list = [i \in 1..Len(c.list) |->
                   IF c.list[i].id = e THEN Pair(e, k, v) ELSE c.list[i]]]
        s70 == [c EXCEPT !.list = push_front(c.list, Pair(n, k, v))]
        s76 == [s70 EXCEPT !.map = map_set(s70.map, k, front(s70.list))]
        ev == insert_evict(s76)
    IN IF e # NULL
       THEN Result(<<At(68, c), At(76, upd)>>, e, FALSE)
       ELSE Result(<<At(68, c), At(70, s70), At(76, s76)>> \o ev.trace, n, ev.crash)

\* insert that removes the old entry of a present key before it pushes the
\* new node
insert_erase_first(c, k, v, n) ==
    LET e == map_getptr(c.map, k)
        s73 == IF e # NULL THEN [c EXCEPT !.list = erase(c.list, e)] ELSE c
        s74 == IF e # NULL THEN [s73 EXCEPT !.map = map_erase(s73.map, k)] ELSE s73
        s70 == [s74 EXCEPT !.list = push_front(s74.list, Pair(n, k, v))]
        s76 == [s70 EXCEPT !.map = map_set(s70.map, k, front(s70.list))]
        ev == insert_evict(s76)
    IN Result(<<At(68, c)>>
                \o (IF e # NULL THEN <<At(73, s73), At(74, s74)>> ELSE <<>>)
                \o <<At(70, s70), At(76, s76)>> \o ev.trace,
              n, ev.crash)

\* insert that makes room before it looks for the old entry: it evicts the
\* back of a full cache right after the push
insert_evict_early(c, k, v, n) ==
    LET e == map_getptr(c.map, k)
        s70 == [c EXCEPT !.list = push_front(c.list, Pair(n, k, v))]
        full == Len(s70.list) > c.capacity /\ Len(c.list) >= 1
        s80 == IF full
               THEN [s70 EXCEPT !.map = map_erase(s70.map, deref(s70.list, back(s70.list)).key)]
               ELSE s70
        s81 == IF full THEN [s80 EXCEPT !.list = pop_back(s80.list)] ELSE s80
        e2 == map_getptr(s81.map, k)
        s73 == IF e2 # NULL THEN [s81 EXCEPT !.list = erase(s81.list, e2)] ELSE s81
        s74 == IF e2 # NULL THEN [s73 EXCEPT !.map = map_erase(s73.map, k)] ELSE s73
        s76 == [s74 EXCEPT !.map = map_set(s74.map, k, front(s74.list))]
        ev == insert_evict(s76)
    IN Result(<<At(68, c), At(70, s70)>>
                \o (IF full THEN <<At(80, s80), At(81, s81)>> ELSE <<>>)
                \o (IF e2 # NULL THEN <<At(73, s73), At(74, s74)>> ELSE <<>>)
                \o <<At(76, s76)>> \o ev.trace,
              n, ev.crash)

\* insert(p_key, p_value); n is the address of the Element push_front allocates
insert(c, k, v, n) ==
    LET e == map_getptr(c.map, k)
        s70 == [c EXCEPT !.list = push_front(c.list, Pair(n, k, v))]
        s73 == IF e # NULL THEN [s70 EXCEPT !.list = erase(s70.list, e)] ELSE s70
        s74 == IF e # NULL THEN [s73 EXCEPT !.map = map_erase(s73.map, k)] ELSE s73
        s76 == [s74 EXCEPT !.map = map_set(s74.map, k, front(s74.list))]
        ev == insert_evict(s76)
    IN Result(<<At(68, c), At(70, s70)>>
                \o (IF e # NULL THEN <<At(73, s73), At(74, s74)>> ELSE <<>>)
                \o <<At(76, s76)>> \o ev.trace,
              n, ev.crash)

\* clear that empties the index and leaves the list as it is
clear_map_only(c) ==
    LET s88 == [c EXCEPT !.map = EmptyMap]
    IN Result(<<At(87, c), At(88, s88)>>, NULL, FALSE)

clear(c) ==
    LET s88 == [c EXCEPT !.map = EmptyMap]
        s89 == [s88 EXCEPT !.list = <<>>]
    IN Result(<<At(87, c), At(88, s88), At(89, s89)>>, NULL, FALSE)

\* has that refreshes the entry it finds
has_touch(c, k) ==
    LET e == map_getptr(c.map, k)
        s93 == [c EXCEPT !.list = move_to_front(c.list, e)]
    IN Result(<<At(92, c), At(93, s93)>>, e # NULL, FALSE)

\* the Element* of the index converted to bool
has(c, k) == Result(<<At(92, c)>>, map_getptr(c.map, k) # NULL, FALSE)

\* get that reads the data of the node at the front before it moves the
\* entry there
get_stale(c, k) ==
    LET e == map_getptr(c.map, k)
        s99 == [c EXCEPT !.list = move_to_front(c.list, e)]
    IN IF CRASH_COND(e = NULL)
       THEN Result(<<At(96, c)>>, NULL, TRUE)
       ELSE Result(<<At(96, c), At(99, s99)>>, deref(c.list, front(c.list)).data, FALSE)

\* get that does not refresh the entry
get_no_touch(c, k) ==
    LET e == map_getptr(c.map, k)
    IN IF CRASH_COND(e = NULL)
       THEN Result(<<At(96, c)>>, NULL, TRUE)
       ELSE Result(<<At(96, c), At(99, c)>>, deref(c.list, e).data, FALSE)

\* get that returns on a miss instead of trapping
get_soft(c, k) ==
    LET e == map_getptr(c.map, k)
        s99 == [c EXCEPT !.list = move_to_front(c.list, e)]
    IN IF e = NULL
       THEN Result(<<At(96, c)>>, NULL, FALSE)
       ELSE Result(<<At(96, c), At(99, s99)>>, deref(s99.list, e).data, FALSE)

\* CRASH_COND(!e) traps before the list is touched
get(c, k) ==
    LET e == map_getptr(c.map, k)
        s99 == [c EXCEPT !.list = move_to_front(c.list, e)]
    IN IF CRASH_COND(e = NULL)
       THEN Result(<<At(96, c)>>, NULL, TRUE)
       ELSE Result(<<At(96, c), At(99, s99)>>, deref(s99.list, e).data, FALSE)

\* getptr that does not refresh the entry
getptr_no_touch(c, k) ==
    LET e == map_getptr(c.map, k)
    IN IF e = NULL
       THEN Result(<<At(103, c)>>, NULL, FALSE)
       ELSE Result(<<At(103, c), At(108, c)>>, e, FALSE)

\* getptr that unlinks the entry it finds and does not link it again
getptr_erase(c, k) ==
    LET e == map_getptr(c.map, k)
        s108 == [c EXCEPT !.list = erase(c.list, e)]
    IN IF e = NULL
       THEN Result(<<At(103, c)>>, NULL, FALSE)
       ELSE Result(<<At(103, c), At(108, s108)>>, e, FALSE)

\* returns the address of the node holding the data, or nullptr
getptr(c, k) ==
    LET e == map_getptr(c.map, k)
        s108 == [c EXCEPT !.list = move_to_front(c.list, e)]
    IN IF e = NULL
       THEN Result(<<At(103, c)>>, NULL, FALSE)
       ELSE Result(<<At(103, c), At(108, s108)>>, e, FALSE)

get_capacity(c) == c.capacity

get_size(c) == map_size(c.map)

RECURSIVE set_capacity_evict_front(_)
\* an eviction loop that reclaims from the front of the list
set_capacity_evict_front(c) ==
    IF map_size(c.map) > c.capacity
    THEN LET d == front(c.list)
             s121 == [c EXCEPT !.map = map_erase(c.map, deref(c.list, d).key)]
             s122 == [s121 EXCEPT !.list = erase(s121.list, d)]
         IN IF d = NULL
            THEN [trace |-> <<>>, crash |-> TRUE]
            ELSE LET rest == set_capacity_evict_front(s122)
                 IN [trace |-> <<At(121, s121), At(122, s122)>> \o rest.trace,
                     crash |-> rest.crash]
    ELSE [trace |-> <<>>, crash |-> FALSE]

RECURSIVE set_capacity_evict_ge(_)
\* an eviction loop that runs while the size is at least the capacity
set_capacity_evict_ge(c) ==
    IF map_size(c.map) >= c.capacity
    THEN LET d == back(c.list)
             s121 == [c EXCEPT !.map = map_erase(c.map, deref(c.list, d).key)]
             s122 == [s121 EXCEPT !.list = pop_back(s121.list)]
         IN IF d = NULL
            THEN [trace |-> <<>>, crash |-> TRUE]
            ELSE LET rest == set_capacity_evict_ge(s122)
                 IN [trace |-> <<At(121, s121), At(122, s122)>> \o rest.trace,
                     crash |-> rest.crash]
    ELSE [trace |-> <<>>, crash |-> FALSE]

RECURSIVE set_capacity_evict(_)
\* lines 119-123, the same loop as in insert
set_capacity_evict(c) ==
    IF map_size(c.map) > c.capacity
    THEN LET d == back(c.list)
             s121 == [c EXCEPT !.map = map_erase(c.map, deref(c.list, d).key)]
             s122 == [s121 EXCEPT !.list = pop_back(s121.list)]
         IN IF d = NULL
            THEN [trace |-> <<>>, crash |-> TRUE]
            ELSE LET rest == set_capacity_evict(s122)
                 IN [trace |-> <<At(121, s121), At(122, s122)>> \o rest.trace,
                     crash |-> rest.crash]
    ELSE [trace |-> <<>>, crash |-> FALSE]

\* set_capacity with a single conditional eviction instead of the loop
set_capacity_once(c, p) ==
    IF c.capacity > 0
    THEN LET s118 == [c EXCEPT !.capacity = p]
             d == back(s118.list)
             s121 == [s118 EXCEPT !.map = map_erase(s118.map, deref(s118.list, d).key)]
             s122 == [s121 EXCEPT !.list = pop_back(s121.list)]
         IN IF map_size(s118.map) > s118.capacity
            THEN Result(<<At(116, c), At(118, s118), At(121, s121), At(122, s122)>>, NULL, FALSE)
            ELSE Result(<<At(116, c), At(118, s118)>>, NULL, FALSE)
    ELSE Result(<<At(116, c)>>, NULL, FALSE)

\* set_capacity without the test of the current capacity
set_capacity_unguarded(c, p) ==
    LET s118 == [c EXCEPT !.capacity = p]
        ev == set_capacity_evict(s118)
    IN Result(<<At(116, c), At(118, s118)>> \o ev.trace, NULL, ev.crash)

\* set_capacity that lowers the bound and leaves the eviction to the next
\* insert
set_capacity_no_evict(c, p) ==
    IF c.capacity > 0
    THEN LET s118 == [c EXCEPT !.capacity = p]
         IN Result(<<At(116, c), At(118, s118)>>, NULL, FALSE)
    ELSE Result(<<At(116, c)>>, NULL, FALSE)

set_capacity(c, p) ==
    IF c.capacity > 0
    THEN LET s118 == [c EXCEPT !.capacity = p]
             ev == set_capacity_evict(s118)
         IN Result(<<At(116, c), At(118, s118)>> \o ev.trace, NULL, ev.crash)
    ELSE Result(<<At(116, c)>>, NULL, FALSE)

\* ---- the state machine ---------------------------------------------------
\* the cache the variables hold
Now == Cache(_list, _map, capacity)

\* the state the last call started from
Pre == StateOf(trace[1])

IdsOf(l) == {l[i].id : i \in 1..Len(l)}

KeysOf(l) == [i \in 1..Len(l) |-> l[i].key]

\* ghost: key k becomes the most recently used key of the use order u
Touch(u, k) == <<k>> \o SelectSeq(u, LAMBDA x : x # k)

\* ghost: the use order u without the keys that are not in index m
Forget(u, m) == SelectSeq(u, LAMBDA x : x \in DOMAIN m)

\* the last call; again tells that it is an insert that directly follows an
\* insert of the same key
Call(name, k, v, again) == [name |-> name, key |-> k, val |-> v, again |-> again]

\* Element addresses are opaque: the code stores, copies and dereferences
\* them and never orders or compares two of them, so two states that differ by
\* a renaming of the addresses are the same state of the program.  After a
\* call the addresses are renamed to make the node at position i of the list
\* have address i; the addresses of no node of the list keep their order
\* after those.  Rho(l) lists the addresses in the order of their new names.
Rho(l) ==
    LET ids == [i \in 1..Len(l) |-> l[i].id]
        rest == SelectSeq([i \in NodeIds |-> i],
                          LAMBDA x : \A i \in 1..Len(l) : l[i].id # x)
    IN ids \o rest

\* the new name of address x under the renaming r
Renamed(x, r) ==
    IF \E i \in 1..Len(r) : r[i] = x THEN CHOOSE i \in 1..Len(r) : r[i] = x ELSE x

RenameList(l, r) == [i \in 1..Len(l) |-> Pair(Renamed(l[i].id, r), l[i].key, l[i].data)]

RenameMap(m, r) == [k \in DOMAIN m |-> Renamed(m[k], r)]

\* cache c with its addresses renamed
Canon(c) ==
    Cache(RenameList(c.list, Rho(c.list)), RenameMap(c.map, Rho(c.list)), c.capacity)

\* the effect of a call on the program state: the variables hold the state
\* the call ends in, with its addresses renamed, and trace holds the states
\* of the call with the addresses the call saw; isptr tells that the call
\* returns an address
Apply(res, isptr) ==
    LET f == Final(res)
        r == Rho(f.list)
    IN /\ _list' = RenameList(f.list, r)
       /\ _map' = RenameMap(f.map, r)
       /\ capacity' = f.capacity
       /\ crashed' = res.crash
       /\ ret' = IF isptr THEN Renamed(res.ret, r) ELSE res.ret
       /\ trace' = res.trace

\* LRUCache(int p_capacity)
Init ==
    /\ _list = <<>>
    /\ _map = EmptyMap
    /\ capacity \in Caps
    /\ crashed = FALSE
    /\ op = Call("new", NULL, NULL, FALSE)
    /\ ret = NULL
    /\ trace = <<At(131, Cache(<<>>, EmptyMap, capacity))>>
    /\ uses = <<>>

\* the address of the Element push_front allocates: one that is free, and
\* since the addresses are renamed after the call, any of them
NewElement(l) == CHOOSE x \in NodeIds \ IdsOf(l) : \A y \in NodeIds \ IdsOf(l) : x <= y

Insert(k, v) ==
    /\ ~crashed
    /\ Apply(insert(Now, k, v, NewElement(_list)), TRUE)
    /\ op' = Call("insert", k, v, op.name = "insert" /\ op.key = k)
    /\ uses' = Forget(Touch(uses, k), _map')

Clear ==
    /\ ~crashed
    /\ Apply(clear(Now), FALSE)
    /\ op' = Call("clear", NULL, NULL, FALSE)
    /\ uses' = Forget(uses, _map')

Has(k) ==
    /\ ~crashed
    /\ Apply(has(Now, k), FALSE)
    /\ op' = Call("has", k, NULL, FALSE)
    /\ UNCHANGED uses

Get(k) ==
    /\ ~crashed
    /\ Apply(get(Now, k), FALSE)
    /\ op' = Call("get", k, NULL, FALSE)
    /\ uses' = Forget(IF k \in DOMAIN _map THEN Touch(uses, k) ELSE uses, _map')

Getptr(k) ==
    /\ ~crashed
    /\ Apply(getptr(Now, k), TRUE)
    /\ op' = Call("getptr", k, NULL, FALSE)
    /\ uses' = Forget(IF k \in DOMAIN _map THEN Touch(uses, k) ELSE uses, _map')

SetCapacity(p) ==
    /\ ~crashed
    /\ Apply(set_capacity(Now, p), FALSE)
    /\ op' = Call("set_capacity", NULL, p, FALSE)
    /\ uses' = Forget(uses, _map')

Next ==
    \/ \E k \in Keys, v \in Vals : Insert(k, v)
    \/ Clear
    \/ \E k \in Keys : Has(k)
    \/ \E k \in Keys : Get(k)
    \/ \E k \in Keys : Getptr(k)
    \/ \E p \in Caps : SetCapacity(p)

Spec == Init /\ [][Next]_vars

\* ---- type correctness ----------------------------------------------------
TypeOK ==
    /\ \A i \in 1..Len(_list) :
          _list[i].id \in NodeIds /\ _list[i].key \in Keys /\ _list[i].data \in Vals
    /\ DOMAIN _map \subseteq Keys
    /\ \A k \in DOMAIN _map : _map[k] \in NodeIds
    /\ capacity \in Caps
    /\ crashed \in BOOLEAN
    /\ Len(trace) >= 1

\* ---- helpers of the properties -------------------------------------------
\* the positions of the trace that end an iteration of an eviction loop
\* (after line 81 of insert or line 122 of set_capacity); the iteration
\* started from the state two positions earlier
EvictionEnds == {i \in 3..Len(trace) : trace[i].line \in {81, 122}}

\* map m without key k
Without(m, k) == [x \in DOMAIN m \ {k} |-> m[x]]

\* map m restricted to the keys of list l
OnKeys(m, l) == [x \in {l[i].key : i \in 1..Len(l)} \cap DOMAIN m |-> m[x]]

\* sequence s restricted to the elements of set S
Restrict(s, S) == SelectSeq(s, LAMBDA x : x \in S)

Min(a, b) == IF a < b THEN a ELSE b

\* ---- C1 ------------------------------------------------------------------
\* C1: in every reachable state the number of keys of the index equals the
\* number of nodes of the recency list, equals get_size(), and is at most
\* get_capacity().
C1_SizeInvariant ==
    /\ Cardinality(DOMAIN _map) = Len(_list)
    /\ get_size(Now) = Len(_list)
    /\ get_size(Now) <= get_capacity(Now)

\* an insert into a full cache of capacity >= 2 has just evicted an entry
C1_Witness ==
    /\ op.name = "insert"
    /\ capacity >= 2
    /\ Len(_list) = capacity
    /\ EvictionEnds # {}

\* ---- C2 ------------------------------------------------------------------
\* C2: after every operation the index and the recency list are in
\* bijection: every key of _map maps to a node of _list that stores that
\* key, no two nodes of _list carry the same key or the same address, and
\* every node of _list is the target of exactly one _map entry.
C2_Bijection ==
    /\ \A k \in DOMAIN _map :
          \E i \in 1..Len(_list) : _list[i].id = _map[k] /\ _list[i].key = k
    /\ \A i, j \in 1..Len(_list) :
          i # j => _list[i].key # _list[j].key /\ _list[i].id # _list[j].id
    /\ \A i \in 1..Len(_list) :
          Cardinality({k \in DOMAIN _map : _map[k] = _list[i].id}) = 1

\* an insert has just replaced the entry of a present key among others
C2_Witness ==
    /\ op.name = "insert"
    /\ op.key \in DOMAIN Pre.map
    /\ Len(_list) >= 2
    /\ \E i \in 1..Len(trace) : trace[i].line = 73

\* ---- C3 ------------------------------------------------------------------
\* C3: every iteration of an eviction loop, in insert and in set_capacity,
\* removes exactly the node at the back of the list at that moment, removes
\* the key of that node from the index, and leaves the order, keys, values
\* and index entries of all other nodes, and the capacity, unchanged.
C3_EvictionStep ==
    \A i \in EvictionEnds :
        LET b == trace[i - 2]
            a == trace[i]
        IN /\ Len(b.list) >= 1
           /\ a.list = SubSeq(b.list, 1, Len(b.list) - 1)
           /\ b.list[Len(b.list)].key \in DOMAIN b.map
           /\ a.map = Without(b.map, b.list[Len(b.list)].key)
           /\ a.capacity = b.capacity

\* a set_capacity has just evicted two entries, one after the other
C3_Witness ==
    /\ op.name = "set_capacity"
    /\ Cardinality(EvictionEnds) >= 2
    /\ Len(Pre.list) = Len(_list) + 2

\* ---- C4 ------------------------------------------------------------------
\* C4: after every call the keys of the recency list, front to back, are the
\* present keys in the order of their last use (insert, get, getptr hit),
\* latest first; and every entry an insert evicts is the one whose last use
\* is the oldest among the keys in the index at that moment.
C4_RecencyIsLastUse ==
    [][/\ KeysOf(_list') = uses'
       /\ op'.name = "insert" =>
             \A i \in 3..Len(trace') :
                 trace'[i].line = 81 =>
                     LET b == trace'[i - 2]
                         order == Restrict(Touch(uses, op'.key), DOMAIN b.map)
                     IN /\ Len(order) >= 1
                        /\ DOMAIN trace'[i].map = DOMAIN b.map \ {order[Len(order)]}]_vars

\* an insert of a new key into a full cache of capacity >= 2 has just evicted
\* an entry
C4_Witness ==
    /\ op.name = "insert"
    /\ capacity >= 2
    /\ Len(_list) = capacity
    /\ EvictionEnds # {}
    /\ op.key \notin DOMAIN Pre.map
    /\ Len(uses) = capacity

\* ---- C5 ------------------------------------------------------------------
\* C5: if has(k) holds right after get(k) or insert(k, v) returned, then k is
\* the key of the front node and the index entry of k is that node.
C5_FrontAfterUse ==
    (op.name \in {"get", "insert"} /\ ~crashed /\ has(Now, op.key).ret) =>
        /\ Len(_list) >= 1
        /\ _list[1].key = op.key
        /\ _map[op.key] = _list[1].id
        /\ front(_list) = _map[op.key]

\* a get has just moved an entry that was not at the front
C5_Witness ==
    /\ op.name = "get"
    /\ ~crashed
    /\ Len(_list) >= 2
    /\ Pre.list[1].key # op.key
    /\ _list[1].key = op.key

\* ---- C6 ------------------------------------------------------------------
\* C6: has(k) leaves the recency list, the index, the values, the size and
\* the capacity as they were, and returns true exactly when k is a key of
\* the index.
C6_HasReadOnly ==
    op.name = "has" =>
        /\ Now = Pre
        /\ get_size(Now) = get_size(Pre)
        /\ ret = (op.key \in DOMAIN Pre.map)
        /\ ~crashed

\* has has just found a key that is not at the front
C6_Witness ==
    /\ op.name = "has"
    /\ ret = TRUE
    /\ Len(_list) >= 2
    /\ _list[1].key # op.key

\* ---- C7 ------------------------------------------------------------------
\* the step is an insert of key k that directly follows an insert of k
IsOverwrite == op.name = "insert" /\ op'.name = "insert" /\ op'.key = op.key

\* C7 as stated: insert(k, v1); insert(k, v2) leaves the size as it was before
\* the first insert, get(k) returns v2, and k is at the front.
C7_OverwriteAsStated ==
    [][IsOverwrite =>
          /\ get_size(Now') = get_size(Pre)
          /\ ~get(Now', op'.key).crash
          /\ get(Now', op'.key).ret = op'.val
          /\ Len(_list') >= 1
          /\ _list'[1].key = op'.key]_vars

\* C7: insert(k, v1); insert(k, v2) leaves the size as it was after the first
\* insert, which is the size before the first insert exactly when k was
\* present or the cache was full then; with a capacity of at least one,
\* get(k) returns v2 and k is at the front, and with capacity zero k is
\* absent.
C7_Overwrite ==
    [][IsOverwrite =>
          /\ get_size(Now') = get_size(Now)
          /\ get_size(Now') = get_size(Pre)
                <=> (op.key \in DOMAIN Pre.map \/ get_size(Pre) = Pre.capacity)
          /\ capacity >= 1 =>
                /\ ~get(Now', op'.key).crash
                /\ get(Now', op'.key).ret = op'.val
                /\ Len(_list') >= 1
                /\ _list'[1].key = op'.key
          /\ capacity = 0 => ~has(Now', op'.key).ret]_vars

\* the second of two inserts of one key has just replaced the value, among
\* other entries
C7_Witness ==
    /\ op.name = "insert"
    /\ op.again
    /\ Len(_list) >= 2
    /\ Pre.list[1].key = op.key
    /\ Pre.list[1].data # op.val
    /\ _list[1].data = op.val

\* ---- C8 ------------------------------------------------------------------
\* C8: get(k) on a key that is not in the index traps: the process reaches
\* the crashed state, from which no step is taken, no value is returned, and
\* the list, the index and the capacity are as before the call; nothing else
\* crashes the process.
C8_GetAbsentTraps ==
    [][/\ ~crashed
       /\ (op'.name = "get" /\ op'.key \notin DOMAIN _map) =>
              crashed' /\ ret' = NULL /\ Now' = Now /\ Len(trace') = 1
       /\ crashed' => (op'.name = "get" /\ op'.key \notin DOMAIN _map)]_vars

\* a get of an absent key has trapped on a cache that holds entries
C8_Witness ==
    /\ crashed
    /\ op.name = "get"
    /\ Len(_list) >= 2
    /\ op.key \notin DOMAIN _map

\* ---- C9 ------------------------------------------------------------------
\* C9: getptr(k) on an absent key returns nullptr and leaves the cache as it
\* was; on a present key it leaves the cache in the state get(k) leaves it
\* in, and points to the value get(k) returns.
C9_GetptrLikeGet ==
    op.name = "getptr" =>
        IF op.key \notin DOMAIN Pre.map
        THEN ret = NULL /\ Now = Pre /\ ~crashed
        ELSE LET g == get(Pre, op.key)
             IN /\ ~g.crash /\ ~crashed
                /\ Now = Canon(Final(g))
                /\ ret # NULL
                /\ deref(_list, ret).key = op.key
                /\ deref(_list, ret).data = g.ret

\* a getptr has just found an entry that was not at the front
C9_Witness ==
    /\ op.name = "getptr"
    /\ ret # NULL
    /\ Len(_list) >= 2
    /\ Pre.list[1].key # op.key

\* ---- C10 -----------------------------------------------------------------
\* C10: set_capacity(n) called with a capacity greater than zero sets the
\* capacity to n and keeps exactly the min(old size, n) entries nearest the
\* front, in their order, with their values and index entries; the entries
\* removed are the (old size - n) nearest the back.
C10_SetCapacity ==
    (op.name = "set_capacity" /\ Pre.capacity > 0) =>
        LET keep == Min(Len(Pre.list), op.val)
        IN /\ get_capacity(Now) = op.val
           /\ get_size(Now) = keep
           /\ _list = SubSeq(Pre.list, 1, keep)
           /\ _map = OnKeys(Pre.map, _list)
           /\ \A i \in 1..Len(Pre.list) :
                 i > keep <=> Pre.list[i].key \notin DOMAIN _map
           /\ ~crashed

\* a set_capacity(1) has just shrunk a cache of two entries to the one used
\* last
C10_Witness ==
    /\ op.name = "set_capacity"
    /\ Pre.capacity > 0
    /\ Len(Pre.list) = 2
    /\ op.val = 1
    /\ Len(_list) = 1
    /\ _list[1].key = Pre.list[1].key

\* ---- C11 -----------------------------------------------------------------
\* C11: clear() leaves the index and the recency list empty (get_size() is 0
\* and has(k) is false for every key) and leaves the capacity as it was; the
\* insert that follows a clear ends in the state, and returns the address,
\* that it does on a newly constructed cache of that capacity.
C11_Clear ==
    [][/\ op'.name = "clear" =>
             /\ _list' = <<>>
             /\ _map' = EmptyMap
             /\ get_size(Now') = 0
             /\ \A k \in Keys : ~has(Now', k).ret
             /\ get_capacity(Now') = get_capacity(Now)
             /\ ~crashed'
       /\ (op.name = "clear" /\ op'.name = "insert") =>
             LET new == Cache(<<>>, EmptyMap, capacity)
                 res == insert(new, op'.key, op'.val, NewElement(<<>>))
             IN /\ Now' = Canon(Final(res))
                /\ ret' = Renamed(res.ret, Rho(Final(res).list))
                /\ crashed' = res.crash]_vars

\* a clear has just emptied a cache of two entries
C11_Witness ==
    /\ op.name = "clear"
    /\ Len(Pre.list) >= 2
    /\ capacity >= 2
    /\ _list = <<>>

\* ---- C12 -----------------------------------------------------------------
\* C12: when insert(k, v) returns, the address it returns is that of a node
\* that is in the recency list, that the index maps k to, and whose value is
\* v, whatever the capacity.
C12_InsertReturnsLiveNode ==
    op.name = "insert" =>
        /\ ret \in IdsOf(_list)
        /\ op.key \in DOMAIN _map
        /\ _map[op.key] = ret
        /\ deref(_list, ret).key = op.key
        /\ deref(_list, ret).data = op.val

\* ---- C13 -----------------------------------------------------------------
\* the number of nodes of list l that carry key k
CountKey(l, k) == Cardinality({i \in 1..Len(l) : l[i].key = k})

\* the last call is an insert of a key that was in the index
IsReinsert == op.name = "insert" /\ op.key \in DOMAIN Pre.map

\* C13 as stated: when insert(k, v) is called with k present, at no step of
\* the call does the list contain two nodes with key k, or more nodes than
\* it had on entry plus one; the old entry has left the list and the index
\* when the new node is created.
C13_OldRemovedFirstAsStated ==
    IsReinsert =>
        \A i \in 1..Len(trace) :
            /\ CountKey(trace[i].list, op.key) <= 1
            /\ Len(trace[i].list) <= Len(Pre.list) + 1
            /\ trace[i].line = 70 => op.key \notin DOMAIN trace[i - 1].map

\* C13: when insert(k, v) is called with k present, the new node is pushed
\* first (line 70), and the list then holds two nodes with key k, the new one
\* at the front, while the index still refers to the old one; the old node
\* is erased from the list next (line 73), then k from the index (line 74),
\* and the index is then set to the new node (line 76).  At no step does the
\* list hold more than two nodes with key k or more nodes than it had on
\* entry plus one, and from line 73 on it holds exactly one node with key k.
C13_OldRemovedAfterPush ==
    IsReinsert =>
        /\ Len(trace) >= 5
        /\ <<trace[1].line, trace[2].line, trace[3].line, trace[4].line, trace[5].line>>
              = <<68, 70, 73, 74, 76>>
        /\ CountKey(trace[2].list, op.key) = 2
        /\ trace[2].list[1] = Pair(trace[2].list[1].id, op.key, op.val)
        /\ trace[2].list[1].id \notin IdsOf(Pre.list)
        /\ trace[2].map = Pre.map
        /\ trace[3].list = erase(trace[2].list, Pre.map[op.key])
        /\ trace[3].map = Pre.map
        /\ trace[4].map = Without(Pre.map, op.key)
        /\ trace[4].list = trace[3].list
        /\ trace[5].map[op.key] = trace[2].list[1].id
        /\ \A i \in 1..Len(trace) :
              /\ CountKey(trace[i].list, op.key) <= 2
              /\ Len(trace[i].list) <= Len(Pre.list) + 1
              /\ i >= 3 => CountKey(trace[i].list, op.key) = 1

\* an insert has just replaced the entry of a present key that was not at the
\* front
C13_Witness ==
    /\ IsReinsert
    /\ Len(Pre.list) >= 2
    /\ Pre.list[1].key # op.key
    /\ _list[1].key = op.key

\* ---- C14 -----------------------------------------------------------------
\* the value cache c stores for key k of its index
StoredValue(c, k) == deref(c.list, c.map[k]).data

\* C14: after insert(k, v) the value stored for k is v; every other call
\* (get, getptr, has, set_capacity, clear, insert of another key) leaves the
\* value stored for each key that remains as it was and adds no key; and
\* get(k) and getptr(k) on a present key return the value stored for k.
\* Hence the value returned for a present key is the v of the latest
\* insert(k, v).
C14_ValueOfLatestInsert ==
    [][/\ \A k \in DOMAIN _map' :
             IF op'.name = "insert" /\ op'.key = k
             THEN StoredValue(Now', k) = op'.val
             ELSE k \in DOMAIN _map /\ StoredValue(Now', k) = StoredValue(Now, k)
       /\ (op'.name = "get" /\ op'.key \in DOMAIN _map) =>
             /\ ret' = StoredValue(Now, op'.key)
             /\ get(Now', op'.key).ret = ret'
       /\ (op'.name = "getptr" /\ op'.key \in DOMAIN _map) =>
             /\ ret' # NULL
             /\ deref(_list', ret').key = op'.key
             /\ deref(_list', ret').data = StoredValue(Now, op'.key)]_vars

\* a get has just returned the value of an entry that was not at the front,
\* the entry at the front holding another value
C14_Witness ==
    /\ op.name = "get"
    /\ ~crashed
    /\ Len(Pre.list) >= 2
    /\ Pre.list[1].key # op.key
    /\ Pre.list[1].data # ret
    /\ ret = _list[1].data

\* ---- C15 -----------------------------------------------------------------
\* C15: a cache whose capacity is 0, by construction or by set_capacity(0),
\* is empty, and every call leaves it with capacity 0 and empty:
\* set_capacity(n) changes nothing at all, and after insert(k, v), as after
\* any call, has(k) is false for every key.
C15_CapacityZeroAbsorbs ==
    [][get_capacity(Now) = 0 =>
          /\ get_size(Now) = 0
          /\ _list = <<>>
          /\ get_capacity(Now') = 0
          /\ get_size(Now') = 0
          /\ _list' = <<>>
          /\ \A k \in Keys : ~has(Now', k).ret
          /\ op'.name = "set_capacity" => (Now' = Now /\ Len(trace') = 1)]_vars

\* set_capacity(n) with n >= 1 has just been called on a cache of capacity 0
C15_Witness ==
    /\ op.name = "set_capacity"
    /\ op.val >= 1
    /\ Pre.capacity = 0
    /\ capacity = 0

\* ---- C16 -----------------------------------------------------------------
\* the keys of list l other than k, in their order
OtherKeys(l, k) == SelectSeq(KeysOf(l), LAMBDA x : x # k)

\* the nodes of list l that do not carry key k, in their order
OtherNodes(l, k) == SelectSeq(l, LAMBDA nd : nd.key # k)

\* C16: insert(k, v) on a present key k evicts nothing, also when the cache
\* is full: the keys of the index and the size are those before the call,
\* the loop body is not run, and the other entries keep their order and
\* their values.
C16_ReinsertEvictsNothing ==
    IsReinsert =>
        /\ DOMAIN _map = DOMAIN Pre.map
        /\ get_size(Now) = get_size(Pre)
        /\ EvictionEnds = {}
        /\ \A i \in 1..Len(trace) : trace[i].line \notin {80, 81}
        /\ OtherKeys(_list, op.key) = OtherKeys(Pre.list, op.key)
        /\ \A k \in DOMAIN Pre.map \ {op.key} :
              StoredValue(Now, k) = StoredValue(Pre, k)
        /\ get_capacity(Now) = get_capacity(Pre)

\* an insert has just replaced, in a full cache of two entries, the entry
\* that was at the back
C16_Witness ==
    /\ IsReinsert
    /\ capacity >= 2
    /\ Len(Pre.list) = capacity
    /\ Pre.list[Len(Pre.list)].key = op.key
    /\ Len(_list) = capacity

\* ---- C17 -----------------------------------------------------------------
\* C17: a get(k) or getptr(k) that finds k changes the position of k and
\* nothing else: the keys of the index and of the list, the size, the
\* capacity, the value of every key and the order of the entries other than
\* k are those before the call, every node keeps its address, and the node
\* of k is the same node, now at the front.
C17_HitMovesOnlyK ==
    (op.name \in {"get", "getptr"} /\ op.key \in DOMAIN Pre.map) =>
        LET after == StateOf(Last(trace))
        IN /\ ~crashed
           /\ Now = Canon(after)
           /\ DOMAIN _map = DOMAIN Pre.map
           /\ {_list[i].key : i \in 1..Len(_list)} = DOMAIN Pre.map
           /\ get_size(Now) = get_size(Pre)
           /\ Len(_list) = Len(Pre.list)
           /\ get_capacity(Now) = get_capacity(Pre)
           /\ \A k \in DOMAIN Pre.map : StoredValue(Now, k) = StoredValue(Pre, k)
           /\ OtherKeys(_list, op.key) = OtherKeys(Pre.list, op.key)
           /\ after.map = Pre.map
           /\ OtherNodes(after.list, op.key) = OtherNodes(Pre.list, op.key)
           /\ after.list[1] = deref(Pre.list, Pre.map[op.key])

\* a getptr has just moved the entry at the back of a cache of two entries
\* to the front
C17_Witness ==
    /\ op.name = "getptr"
    /\ ret # NULL
    /\ Len(Pre.list) >= 2
    /\ Pre.list[Len(Pre.list)].key = op.key
    /\ _list[1].key = op.key

\* ---- C18 -----------------------------------------------------------------
Max(a, b) == IF a > b THEN a ELSE b

\* C18: the eviction loops end and never take the back of an empty list:
\* no insert and no set_capacity traps, every iteration starts from a list
\* that is not empty and takes exactly one key from the index and one node
\* from the list, and set_capacity(n) called with size s and a capacity
\* greater than zero runs exactly max(0, s - n) iterations and then returns.
C18_EvictionLoopEnds ==
    /\ op.name \in {"insert", "set_capacity"} => ~crashed
    /\ \A i \in EvictionEnds :
          /\ trace[i - 1].line \in {80, 121}
          /\ Len(trace[i - 2].list) >= 1
          /\ back(trace[i - 2].list) # NULL
          /\ map_size(trace[i].map) = map_size(trace[i - 2].map) - 1
          /\ Len(trace[i].list) = Len(trace[i - 2].list) - 1
          /\ map_size(trace[i - 1].map) = map_size(trace[i - 2].map) - 1
          /\ Len(trace[i - 1].list) = Len(trace[i - 2].list)
    /\ (op.name = "set_capacity" /\ Pre.capacity > 0) =>
          LET n == Max(0, get_size(Pre) - op.val)
          IN /\ Cardinality(EvictionEnds) = n
             /\ Len(trace) = 2 + 2 * n
             /\ get_size(Now) = get_size(Pre) - n
             /\ Len(_list) = Len(Pre.list) - n

\* a set_capacity(0) has just run two iterations on a cache of two entries
C18_Witness ==
    /\ op.name = "set_capacity"
    /\ Pre.capacity > 0
    /\ get_size(Pre) = 2
    /\ op.val = 0
    /\ Cardinality(EvictionEnds) = 2
    /\ _list = <<>>

\* ---- C19 -----------------------------------------------------------------
\* the number of iterations the eviction loop of the last call has run
Iterations == Cardinality(EvictionEnds)

\* C19: an insert runs the body of its eviction loop once when the key is
\* absent and the size on entry equals the capacity, and not at all
\* otherwise; no call, set_capacity included, returns with more entries than
\* the capacity, so no insert starts with an excess to drain.
C19_InsertEvictsAtMostOnce ==
    /\ get_size(Now) <= get_capacity(Now)
    /\ op.name = "insert" =>
          /\ get_size(Pre) <= get_capacity(Pre)
          /\ Iterations <= 1
          /\ Iterations =
                IF op.key \notin DOMAIN Pre.map /\ get_size(Pre) = get_capacity(Pre)
                THEN 1 ELSE 0

\* an insert of a new key has just run the loop body once on a full cache
\* of one entry, a capacity below the largest
C19_Witness ==
    /\ op.name = "insert"
    /\ op.key \notin DOMAIN Pre.map
    /\ Pre.capacity = 1
    /\ get_size(Pre) = 1
    /\ Iterations = 1
    /\ Len(_list) = 1

====
